---- MODULE Spec2Model ----
(***************************************************************************)
(* yamill (src/yamill.py) in three specifications over one state:         *)
(*   Spec    the layout engine normalize(), walked one token at a time     *)
(*           over the token stream that tokenize() yields;                 *)
(*   SpecTok the lexical scanner tokenize(), one scan rule per step;       *)
(*   SpecCli the command line cli(), called repeatedly in one process.     *)
(*                                                                         *)
(* Python strings are modelled as sequences of one-character strings, so   *)
(* that quoting and numeric rendering are computed character by character. *)
(* A token is a record [type_, value]; a token the scanner builds without  *)
(* a value (value=None) carries the empty sequence.  The line and column   *)
(* of a token are read by normalize() only inside error messages and are   *)
(* left out of the record there; the scanner's own tokens carry them.      *)
(***************************************************************************)
EXTENDS Integers, Sequences, FiniteSets, TLC

VARIABLES
    toks,                   \* the tokens tokenize() has yielded so far
    formatted,              \* normalize: formatted
    one_doc,                \* normalize: one_doc
    next_value_is_map_key,  \* normalize: next_value_is_map_key
    next_value_is_map_val,  \* normalize: next_value_is_map_val
    prev,                   \* normalize: prev
    prev_printable,         \* normalize: prev_printable
    stack,                  \* normalize: stack
    result,                 \* "running", "returned" or the exception raised
    returned,               \* the text normalize() returned
    input,                  \* tokenize: the text it was called with
    yaml,                   \* tokenize: yaml, the text not yet scanned
    line,                   \* tokenize: line
    col,                    \* tokenize: col
    ws,                     \* tokenize: ws
    out,                    \* tokenize: the tokens yielded, each with the
                            \*   index in input where its scan began (at)
    tstatus,                \* tokenize: "idle", "scanning", "done", "TokenError"
    config,                 \* the module-level dict config
    disk,                   \* the text of every file
    call                    \* the cli() call in progress, and its locals

normVars == <<toks, formatted, one_doc, next_value_is_map_key,
              next_value_is_map_val, prev, prev_printable, stack, result, returned>>

tokVars == <<input, yaml, line, col, ws, out, tstatus>>

cliVars == <<config, disk, call>>

vars == <<normVars, tokVars, cliVars>>

----------------------------------------------------------------------------
(* Bounds of the exploration *)

\* tokens of a freely chosen stream; the named scenario streams are longer
MaxTokens == 3

----------------------------------------------------------------------------
(* Text constants *)

NL == "\n"
SP == " "
SQ == "'"
DQ == "\""
BS == "\\"

s_str   == <<"s", "t", "r">>
s_int   == <<"i", "n", "t">>
s_float == <<"f", "l", "o", "a", "t">>
s_bool  == <<"b", "o", "o", "l">>
s_null  == <<"n", "u", "l", "l">>
s_seq   == <<"s", "e", "q">>
s_map   == <<"m", "a", "p">>
s_set   == <<"s", "e", "t">>

s_name == <<"n", "a", "m", "e">>
s_Ann  == <<"A", "n", "n">>
s_tags == <<"t", "a", "g", "s">>
s_its  == <<"i", "t", "'", "s">>
s_012  == <<"0", "1", "2">>
s_quoted == <<"'", "x", "'">>
s_k    == <<"k">>
s_a    == <<"a">>
s_b    == <<"b">>
s_foo_1   == <<"f", "o", "o", "_", "1">>
s_foo_bar == <<"f", "o", "o", " ", "b", "a", "r">>
s_empty   == <<>>

c_bad    == <<"b", "a", "d", " ">>
c_spaced == <<" ", "c">>

Token(t, v) == [type_ |-> t, value |-> v]

NoToken == Token("none", <<>>)

scalars     == {s_bool, s_float, s_int, s_null, s_str}
collections == {s_map, s_seq}
printables  == {"comment-inline", "comment-line", "empty-line", "tag", "value"}

\* the three declared error kinds
YamlErrors == {"TokenError", "ParseError", "SanitizeError"}

----------------------------------------------------------------------------
(* Inputs *)

TagNames     == scalars \cup collections \cup {s_set}
ValueTexts   == {s_Ann, s_its, s_quoted, s_012}
CommentTexts == {c_bad, c_spaced}

T_doc  == Token("document", <<>>)
T_mo   == Token("map-open", <<>>)
T_mc   == Token("map-close", <<>>)
T_mk   == Token("map-key", <<>>)
T_mv   == Token("map-val", <<>>)
T_so   == Token("seq-open", <<>>)
T_sc   == Token("seq-close", <<>>)
T_el   == Token("empty-line", <<>>)
T_tag(v) == Token("tag", v)
T_val(v) == Token("value", v)

\* --- !!map { ? !!str "name" : !!str "Ann", ? !!str "tags" : !!seq [ ], }
ScenarioAnn ==
    << T_doc, T_tag(s_map), T_mo,
       T_mk, T_tag(s_str), T_val(s_name), T_mv, T_tag(s_str), T_val(s_Ann),
       T_mk, T_tag(s_str), T_val(s_tags), T_mv, T_tag(s_seq), T_so, T_sc,
       T_mc >>

\* --- !!map { ? !!seq [ !!str "a" ] : !!str "b" }
ScenarioSeqKey ==
    << T_doc, T_tag(s_map), T_mo,
       T_mk, T_tag(s_seq), T_so, T_tag(s_str), T_val(s_a), T_sc,
       T_mv, T_tag(s_str), T_val(s_b), T_mc >>

\* --- !!seq [ !!str "a" <three blank lines> !!str "b" ]
ScenarioBlanks ==
    << T_doc, T_tag(s_seq), T_so, T_tag(s_str), T_val(s_a),
       T_el, T_el, T_el, T_tag(s_str), T_val(s_b), T_sc >>

\* --- !!map { ? !!str "k" : <blank> !!map { <blank> ? !!str "a" : !!str "b" } }
ScenarioBlankAroundTag ==
    << T_doc, T_tag(s_map), T_mo, T_mk, T_tag(s_str), T_val(s_k), T_mv,
       T_el, T_tag(s_map), T_mo, T_el,
       T_mk, T_tag(s_str), T_val(s_a), T_mv, T_tag(s_str), T_val(s_b),
       T_mc, T_mc >>

\* --- !!str "a" <blank line>
ScenarioTrailingBlank == << T_doc, T_tag(s_str), T_val(s_a), T_el >>

\* --- !!seq [ <blank line> ]
ScenarioBlankInSeq == << T_doc, T_tag(s_seq), T_so, T_el, T_sc >>

\* --- !!seq [ !!str "a" ]
ScenarioOneElement ==
    << T_doc, T_tag(s_seq), T_so, T_tag(s_str), T_val(s_a), T_sc >>

\* --- !!map { ? !!str <key> : !!str "a" }
ScenarioKey(key) ==
    << T_doc, T_tag(s_map), T_mo, T_mk, T_tag(s_str), T_val(key),
       T_mv, T_tag(s_str), T_val(s_a), T_mc >>

\* --- !!map { ? !!str "k" : !!seq [ # c <newline> ] }
ScenarioCommentInSeq ==
    << T_doc, T_tag(s_map), T_mo, T_mk, T_tag(s_str), T_val(s_k), T_mv,
       T_tag(s_seq), T_so, Token("comment-line", c_spaced), T_sc, T_mc >>

Scenarios ==
    {ScenarioAnn, ScenarioSeqKey, ScenarioBlanks, ScenarioBlankAroundTag,
     ScenarioTrailingBlank, ScenarioBlankInSeq, ScenarioOneElement,
     ScenarioKey(s_foo_1), ScenarioKey(s_foo_bar), ScenarioKey(s_empty),
     ScenarioCommentInSeq}

\* the value texts that only the scenario streams use
ScenarioTexts == {s_name, s_tags, s_a, s_b, s_k, s_foo_1, s_foo_bar, s_empty}

IsPrefix(s, t) == Len(s) <= Len(t) /\ SubSeq(t, 1, Len(s)) = s

\* tokenize() may yield tok next: any token while the stream is short, and
\* past that only the next token of a scenario stream
CanYield(tok) ==
    \/ /\ Len(toks) < MaxTokens
       /\ tok.type_ = "tag" => tok.value \in TagNames
       /\ tok.type_ = "value" => tok.value \in ValueTexts
       /\ tok.type_ \in {"comment-line", "comment-inline"} => tok.value \in CommentTexts
    \/ \E sc \in Scenarios : IsPrefix(Append(toks, tok), sc)

----------------------------------------------------------------------------
(* Scalar Normalizer *)

Digits    == {"0", "1", "2", "3", "4", "5", "6", "7", "8", "9"}
HexLower  == <<"0", "1", "2", "3", "4", "5", "6", "7", "8", "9",
               "a", "b", "c", "d", "e", "f">>
HexUpper  == <<"0", "1", "2", "3", "4", "5", "6", "7", "8", "9",
               "A", "B", "C", "D", "E", "F">>
Letters   == {"a", "b", "c", "d", "e", "f", "g", "h", "i", "j", "k", "l", "m",
              "n", "o", "p", "q", "r", "s", "t", "u", "v", "w", "x", "y", "z",
              "A", "B", "C", "D", "E", "F", "G", "H", "I", "J", "K", "L", "M",
              "N", "O", "P", "Q", "R", "S", "T", "U", "V", "W", "X", "Y", "Z"}

Contains(s, c)   == \E i \in 1..Len(s) : s[i] = c
StartsWith(s, p) == IsPrefix(p, s)

\* the outcome of a call that may raise
Ok(text)    == [exc |-> "none", text |-> text]
Raise(kind) == [exc |-> kind, text |-> <<>>]

\* value of the digit c in the given base, or -1 when c is no digit of it
DigitVal(c, base) ==
    IF \E i \in 1..base : HexLower[i] = c \/ HexUpper[i] = c
    THEN (CHOOSE i \in 1..base : HexLower[i] = c \/ HexUpper[i] = c) - 1
    ELSE -1

RECURSIVE DigitsValue(_, _)
\* value of a run of digits, most significant first
DigitsValue(s, base) ==
    IF s = <<>> THEN 0
    ELSE DigitsValue(SubSeq(s, 1, Len(s) - 1), base) * base + DigitVal(s[Len(s)], base)

IsDigitRun(s, base) == s # <<>> /\ \A i \in 1..Len(s) : DigitVal(s[i], base) >= 0

RECURSIVE NatText(_, _)
\* a natural number written in the given base, lower-case digits
NatText(n, base) ==
    IF n < base THEN <<HexLower[n + 1]>>
    ELSE Append(NatText(n \div base, base), HexLower[(n % base) + 1])

\* the text after an optional sign
Unsigned(s) == IF s # <<>> /\ s[1] \in {"+", "-"} THEN Tail(s) ELSE s
IsNegative(s) == s # <<>> /\ s[1] = "-"

\* int(s), int(s, 8), int(s, 16) on texts without blanks or underscores: an
\* optional sign, an optional prefix of the base when one is given, digits.
\* The result is [ok, value].
PyInt(s, base, prefix) ==
    LET u == Unsigned(s)
        d == IF prefix # <<>> /\ StartsWith(u, prefix)
             THEN SubSeq(u, Len(prefix) + 1, Len(u)) ELSE u
    IN  IF IsDigitRun(d, base)
        THEN [ok |-> TRUE,
              value |-> IF IsNegative(s) THEN 0 - DigitsValue(d, base)
                        ELSE DigitsValue(d, base)]
        ELSE [ok |-> FALSE, value |-> 0]

\* repr(n), oct(n), hex(n)
PyIntText(n, base, prefix) ==
    (IF n < 0 THEN <<"-">> ELSE <<>>) \o prefix
        \o NatText(IF n < 0 THEN 0 - n ELSE n, base)

yaml_int(s) ==
    IF StartsWith(s, <<"0", "o">>)
    THEN LET p == PyInt(s, 8, <<"0", "o">>)
         IN  IF p.ok THEN Ok(PyIntText(p.value, 8, <<"0", "o">>)) ELSE Raise("ValueError")
    ELSE IF StartsWith(s, <<"0", "x">>)
    THEN LET p == PyInt(s, 16, <<"0", "x">>)
         IN  IF p.ok THEN Ok(PyIntText(p.value, 16, <<"0", "x">>)) ELSE Raise("ValueError")
    ELSE LET p == PyInt(s, 10, <<>>)
         IN  IF p.ok THEN Ok(PyIntText(p.value, 10, <<>>)) ELSE Raise("ValueError")

\* repr(float(s)) for the numerals among the value texts of this model: an
\* optional sign and a run of fewer than 16 decimal digits.  Every other value
\* text of the model holds a letter or a quote and is no float literal.
yaml_float(s) ==
    LET p == PyInt(s, 10, <<>>)
    IN  IF p.ok
        THEN Ok((IF IsNegative(s) THEN <<"-">> ELSE <<>>)
                \o NatText(IF p.value < 0 THEN 0 - p.value ELSE p.value, 10)
                \o <<".", "0">>)
        ELSE Raise("ValueError")

RECURSIVE Replace(_, _, _)
\* s.replace(c, r) for a one-character c
Replace(s, c, r) ==
    IF s = <<>> THEN <<>>
    ELSE (IF s[1] = c THEN r ELSE <<s[1]>>) \o Replace(Tail(s), c, r)

\* yaml_str that double-quotes only a text with a backslash
yaml_str_QuoteDoubling(s) ==
    IF Contains(s, BS)
    THEN <<DQ>> \o s \o <<DQ>>
    ELSE <<SQ>> \o Replace(s, SQ, <<SQ, SQ>>) \o <<SQ>>

yaml_str(s) ==
    IF Contains(s, BS) \/ Contains(s, SQ)
    THEN <<DQ>> \o s \o <<DQ>>
    ELSE <<SQ>> \o Replace(s, SQ, <<SQ, SQ>>) \o <<SQ>>

\* _is_obvious_mapping_key with "*" in place of "+"
_is_obvious_mapping_key_OrEmpty(s) ==
    \A i \in 1..Len(s) : s[i] \in Letters \cup Digits \cup {"_"}

_is_obvious_mapping_key(s) ==
    s # <<>> /\ \A i \in 1..Len(s) : s[i] \in Letters \cup Digits \cup {"_"}

yaml_mapping_key(s) == IF _is_obvious_mapping_key(s) THEN s ELSE yaml_str(s)

normalize_scalar(type_, value) ==
    IF type_ = s_float THEN yaml_float(value)
    ELSE IF type_ = s_int THEN yaml_int(value)
    ELSE IF type_ = s_null THEN Ok(s_null)
    ELSE IF type_ = s_str THEN Ok(yaml_str(value))
    ELSE Ok(value)

RECURSIVE rstrip(_)
rstrip(s) ==
    IF s # <<>> /\ s[Len(s)] \in {SP, NL, "\t", "\r"}
    THEN rstrip(SubSeq(s, 1, Len(s) - 1)) ELSE s

clean_comment(commentval) ==
    LET c == rstrip(commentval)
    IN  IF StartsWith(c, <<"#">>) \/ StartsWith(c, <<SP>>)
        THEN <<"#">> \o c
        ELSE <<"#", SP>> \o c

RECURSIVE Spaces(_)
Spaces(n) == IF n <= 0 THEN <<>> ELSE <<SP>> \o Spaces(n - 1)

\* Indent without the "- 1"
Indent_PerLevel(level) == Spaces(2 * level)

\* (level - 1) * INDENT_WITH; a negative repeat count gives the empty string
Indent(level) == Spaces(2 * (level - 1))

----------------------------------------------------------------------------
(* Layout Engine: normalize(), one action per branch of its token loop *)

\* no tokenize() call of its own is under way
TokIdle ==
    /\ input = <<>>
    /\ yaml = <<>>
    /\ line = 1
    /\ col = 1
    /\ ws = 1
    /\ out = <<>>
    /\ tstatus = "idle"

\* the module was imported and cli() has not been called
NoCall ==
    [phase |-> "idle", n |-> 0, args |-> [flags |-> {}, paths |-> <<>>], i |-> 0,
     checked |-> 0, needs_change |-> 0, changed |-> 0, refused |-> 0, ret |-> 0]

\* the module-level config dictionary as the import leaves it
DefaultConfig == [double_check |-> TRUE, fix_in_place |-> FALSE]

CliIdle ==
    /\ config = DefaultConfig
    /\ disk = <<>>
    /\ call = NoCall

Init ==
    /\ TokIdle
    /\ CliIdle
    /\ toks = <<>>
    /\ formatted = <<>>
    /\ one_doc = FALSE
    /\ next_value_is_map_key = FALSE
    /\ next_value_is_map_val = FALSE
    /\ prev = NoToken
    /\ prev_printable = NoToken
    /\ stack = <<>>
    /\ result = "running"
    /\ returned = <<>>

\* NextPrev without the test for comments
NextPrev_Always(tok, p) == tok

\* "prepare next iteration": comments do not become prev
NextPrev(tok, p) ==
    IF tok.type_ \in {"comment-line", "comment-inline"} THEN p ELSE tok

NextPrevPrintable(tok, pp) ==
    IF tok.type_ \in printables THEN tok ELSE pp

\* the loop reads the next token
Yield(tok) ==
    /\ result = "running"
    /\ CanYield(tok)
    /\ toks' = Append(toks, tok)
    /\ UNCHANGED <<tokVars, cliVars>>

\* the end of a loop body that raised nothing
Continue(tok) ==
    /\ prev' = NextPrev(tok, prev)
    /\ prev_printable' = NextPrevPrintable(tok, prev_printable)
    /\ UNCHANGED <<result, returned>>

\* an exception leaves normalize(): nothing is returned
Raised(kind) ==
    /\ result' = kind
    /\ UNCHANGED <<formatted, one_doc, next_value_is_map_key, next_value_is_map_val,
                   prev, prev_printable, stack, returned>>

\* Document without the test of one_doc
Document_AcceptsAnother ==
    /\ Yield(T_doc)
    /\ one_doc' = TRUE
    /\ Continue(T_doc)
    /\ UNCHANGED <<formatted, next_value_is_map_key, next_value_is_map_val, stack>>

Document ==
    /\ Yield(T_doc)
    /\ IF one_doc
       THEN Raised("SanitizeError")
       ELSE /\ one_doc' = TRUE
            /\ Continue(T_doc)
            /\ UNCHANGED <<formatted, next_value_is_map_key, next_value_is_map_val, stack>>

\* TagPrefix without the branch for a mapping value
TagPrefix_NoValueCase(v, level, is_map_val, started) ==
    IF ~started THEN Indent(level) ELSE <<NL>> \o Indent(level)

\* what a tag appends before the bullet: newline + indent
TagPrefix(v, level, is_map_val, started) ==
    IF is_map_val THEN (IF v \in scalars THEN <<SP>> ELSE <<>>)
    ELSE IF ~started THEN Indent(level)
    ELSE <<NL>> \o Indent(level)

\* the bullet of a sequence element; coll is the stack top before the push
Bullet(coll) == IF coll = s_seq THEN <<"-", SP>> ELSE <<>>

Top(stk) == IF Len(stk) > 0 THEN stk[Len(stk)] ELSE <<>>

Tag(v) ==
    /\ Yield(T_tag(v))
    /\ IF v \notin collections \cup scalars
       THEN Raised("SanitizeError")
       ELSE /\ stack' = IF v \in collections THEN Append(stack, v) ELSE stack
            /\ next_value_is_map_val' = FALSE
            /\ formatted' = formatted
                   \o TagPrefix(v, Len(stack), next_value_is_map_val, formatted # <<>>)
                   \o Bullet(Top(stack))
            /\ Continue(T_tag(v))
            /\ UNCHANGED <<one_doc, next_value_is_map_key>>

\* whether an empty-line token appends a newline
EmptyLineAppends(fmt, pp) == fmt # <<>> /\ pp.type_ # "empty-line"

EmptyLine ==
    /\ Yield(T_el)
    /\ formatted' = IF EmptyLineAppends(formatted, prev_printable)
                    THEN formatted \o <<NL>> ELSE formatted
    /\ Continue(T_el)
    /\ UNCHANGED <<one_doc, next_value_is_map_key, next_value_is_map_val, stack>>

CommentLine(c) ==
    /\ Yield(Token("comment-line", c))
    /\ formatted' = (IF formatted # <<>> THEN formatted \o <<NL>> ELSE formatted)
                        \o Indent(Len(stack)) \o clean_comment(c)
    /\ Continue(Token("comment-line", c))
    /\ UNCHANGED <<one_doc, next_value_is_map_key, next_value_is_map_val, stack>>

CommentInline(c) ==
    /\ Yield(Token("comment-inline", c))
    /\ formatted' = formatted \o <<SP, SP>> \o clean_comment(c)
    /\ Continue(Token("comment-inline", c))
    /\ UNCHANGED <<one_doc, next_value_is_map_key, next_value_is_map_val, stack>>

\* ValueAccepted reading prev_printable in place of prev
ValueAccepted_Printable(p, pp) == pp.type_ = "tag"

\* a value is accepted only right after a tag
ValueAccepted(p, pp) == p.type_ = "tag"

\* a mapping key must be tagged str
KeyTagAllowed(tagname) == tagname = s_str

Value(s) ==
    /\ Yield(T_val(s))
    /\ IF ~ValueAccepted(prev, prev_printable)
       THEN Raised("ParseError")
       ELSE IF ~next_value_is_map_key
       THEN LET r == normalize_scalar(prev.value, s)
            IN  IF r.exc # "none"
                THEN Raised(r.exc)
                ELSE /\ formatted' = formatted \o r.text
                     /\ Continue(T_val(s))
                     /\ UNCHANGED <<one_doc, next_value_is_map_key,
                                    next_value_is_map_val, stack>>
       ELSE IF ~KeyTagAllowed(prev.value)
       THEN \* the flag was already cleared when SanitizeError is raised
            /\ result' = "SanitizeError"
            /\ next_value_is_map_key' = FALSE
            /\ UNCHANGED <<formatted, one_doc, next_value_is_map_val,
                           prev, prev_printable, stack, returned>>
       ELSE /\ next_value_is_map_key' = FALSE
            /\ formatted' = formatted \o yaml_mapping_key(s) \o <<":">>
            /\ Continue(T_val(s))
            /\ UNCHANGED <<one_doc, next_value_is_map_val, stack>>

\* stack.pop(): IndexError on an empty list
Close(tok, open_type, empty_form) ==
    /\ Yield(tok)
    /\ IF stack = <<>>
       THEN \* the empty form is appended before pop() raises
            /\ result' = "IndexError"
            /\ formatted' = IF prev.type_ = open_type
                            THEN formatted \o empty_form ELSE formatted
            /\ UNCHANGED <<one_doc, next_value_is_map_key, next_value_is_map_val,
                           prev, prev_printable, stack, returned>>
       ELSE /\ formatted' = IF prev.type_ = open_type
                            THEN formatted \o empty_form ELSE formatted
            /\ stack' = SubSeq(stack, 1, Len(stack) - 1)
            /\ Continue(tok)
            /\ UNCHANGED <<one_doc, next_value_is_map_key, next_value_is_map_val>>

SeqClose == Close(T_sc, "seq-open", <<SP, "[", "]">>)

MapClose == Close(T_mc, "map-open", <<SP, "{", "}">>)

\* map-open and seq-open match no branch: only prev is updated
SeqOpen ==
    /\ Yield(T_so)
    /\ Continue(T_so)
    /\ UNCHANGED <<formatted, one_doc, next_value_is_map_key, next_value_is_map_val, stack>>

MapOpen ==
    /\ Yield(T_mo)
    /\ Continue(T_mo)
    /\ UNCHANGED <<formatted, one_doc, next_value_is_map_key, next_value_is_map_val, stack>>

MapVal ==
    /\ Yield(T_mv)
    /\ next_value_is_map_val' = TRUE
    /\ Continue(T_mv)
    /\ UNCHANGED <<formatted, one_doc, next_value_is_map_key, stack>>

MapKey ==
    /\ Yield(T_mk)
    /\ IF next_value_is_map_key
       THEN Raised("ParseError")
       ELSE /\ next_value_is_map_key' = TRUE
            /\ Continue(T_mk)
            /\ UNCHANGED <<formatted, one_doc, next_value_is_map_val, stack>>

\* tokenize() finds text that matches no rule and raises TokenError
Garbage ==
    /\ result = "running"
    /\ result' = "TokenError"
    /\ UNCHANGED <<toks, formatted, one_doc, next_value_is_map_key,
                   next_value_is_map_val, prev, prev_printable, stack, returned>>
    /\ UNCHANGED <<tokVars, cliVars>>

\* the token stream is exhausted
EndOfStream ==
    /\ result = "running"
    /\ IF one_doc = FALSE
       THEN /\ result' = "ParseError"
            /\ UNCHANGED returned
       ELSE /\ result' = "returned"
            /\ returned' = formatted \o <<NL>>
    /\ UNCHANGED <<toks, formatted, one_doc, next_value_is_map_key,
                   next_value_is_map_val, prev, prev_printable, stack>>
    /\ UNCHANGED <<tokVars, cliVars>>

Next ==
    \/ Document
    \/ \E v \in TagNames : Tag(v)
    \/ EmptyLine
    \/ \E c \in CommentTexts : CommentLine(c)
    \/ \E c \in CommentTexts : CommentInline(c)
    \/ \E s \in ValueTexts \cup ScenarioTexts : Value(s)
    \/ SeqOpen
    \/ SeqClose
    \/ MapOpen
    \/ MapClose
    \/ MapVal
    \/ MapKey
    \/ Garbage
    \/ EndOfStream

Spec == Init /\ [][Next]_vars

----------------------------------------------------------------------------
(* Properties *)

RECURSIVE LastNonComment(_)
\* the last token of ts that is no comment
LastNonComment(ts) ==
    IF ts = <<>> THEN NoToken
    ELSE IF ts[Len(ts)].type_ \in {"comment-line", "comment-inline"}
    THEN LastNonComment(SubSeq(ts, 1, Len(ts) - 1))
    ELSE ts[Len(ts)]

RECURSIVE LastPrintable(_)
\* the last printable token of ts
LastPrintable(ts) ==
    IF ts = <<>> THEN NoToken
    ELSE IF ts[Len(ts)].type_ \in printables THEN ts[Len(ts)]
    ELSE LastPrintable(SubSeq(ts, 1, Len(ts) - 1))

DocCount(ts) == Cardinality({i \in 1..Len(ts) : ts[i].type_ = "document"})

EndsWith(s, t) == Len(t) <= Len(s) /\ SubSeq(s, Len(s) - Len(t) + 1, Len(s)) = t

\* this step is the loop body for one token of the given type
StepOf(type) == toks' # toks /\ toks'[Len(toks')].type_ = type

\* this step is the end of the token stream
StepAtEnd == toks' = toks /\ result = "running" /\ result' \in {"returned", "ParseError"}

\* C1: every call of normalize either returns text or fails with one of the
\* three declared error kinds TokenError, ParseError, SanitizeError, for every
\* order of tokens, a close token on an empty nesting stack included.
C1_OnlyDeclaredErrors == result \in {"running", "returned"} \cup YamlErrors

\* C2: a document token that follows an earlier one makes the call fail with
\* SanitizeError at that token; a stream without a document token that is
\* consumed to its end fails with ParseError, at the end; a call that returns
\* saw exactly one document token.
C2_OneDocument ==
    /\ [](result = "returned" => DocCount(toks) = 1)
    /\ [][StepOf("document") /\ DocCount(toks) >= 1 => result' = "SanitizeError"]_vars
    /\ [][StepOf("document") /\ DocCount(toks) = 0 => result' = "running"]_vars
    /\ [][StepAtEnd /\ DocCount(toks) = 0 => result' = "ParseError"]_vars
    /\ [][StepAtEnd /\ DocCount(toks) >= 1 => result' = "returned"]_vars

\* C2 witness: the second document token of a stream was refused.
C2_SecondDocumentRefused ==
    toks = <<T_doc, T_doc>> /\ result = "SanitizeError"

\* C3: every text normalize returns ends with a newline and does not end with
\* two newlines.
C3_OneTrailingNewline ==
    result = "returned" =>
        EndsWith(returned, <<NL>>) /\ ~EndsWith(returned, <<NL, NL>>)

\* the node after a map-key marker is tagged with a type other than str: a
\* scalar tag with its value, or a collection tag with its open token
NonStrKeyNode(ts) ==
    \E i \in 1..(Len(ts) - 2) :
        /\ ts[i].type_ = "map-key"
        /\ ts[i + 1].type_ = "tag"
        /\ ts[i + 1].value # s_str
        /\ \/ ts[i + 1].value \in scalars /\ ts[i + 2].type_ = "value"
           \/ ts[i + 1].value = s_seq /\ ts[i + 2].type_ = "seq-open"
           \/ ts[i + 1].value = s_map /\ ts[i + 2].type_ = "map-open"

\* C4: when the node after a map-key marker is tagged int, float, bool, null,
\* seq or map, normalize returns no output.
C4_NonStrKeyRejected == NonStrKeyNode(toks) => result # "returned"

\* C5: at most one of next_value_is_map_key and next_value_is_map_val is true.
C5_FlagsExclusive == ~(next_value_is_map_key /\ next_value_is_map_val)

\* C6: a value token is accepted exactly when the previous token, comments
\* not counted, is a tag; anywhere else it raises ParseError and appends
\* nothing.
C6_ValueOnlyAfterTag ==
    [][StepOf("value") =>
        IF LastNonComment(toks).type_ = "tag"
        THEN result' # "ParseError"
        ELSE result' = "ParseError" /\ formatted' = formatted]_vars

\* C6 witness: a value right after an empty-line token was refused.
C6_ValueAfterEmptyLineRefused ==
    /\ Len(toks) >= 2
    /\ toks[Len(toks)].type_ = "value"
    /\ toks[Len(toks) - 1].type_ = "empty-line"
    /\ result = "ParseError"

AnnText ==
    <<"n", "a", "m", "e", ":", SP, SQ, "A", "n", "n", SQ, NL,
      "t", "a", "g", "s", ":", SP, "[", "]", NL>>

\* C7: the token stream of {name: "Ann", tags: []} normalizes to the lines
\* name: 'Ann' and tags: [], unindented, with one trailing newline.
C7_AnnScenario ==
    (toks = ScenarioAnn /\ result \notin {"running", "TokenError"}) =>
        (result = "returned" /\ returned = AnnText)

\* C7 witness: normalize returned for that stream.
C7_AnnReturned == toks = ScenarioAnn /\ result = "returned"

\* the collection opened by the last tag of ts has its open token and, after
\* it, nothing but blank lines and comments
EmptySince(ts, tagname, open_type) ==
    \E j \in 1..(Len(ts) - 1) :
        /\ ts[j] = T_tag(tagname)
        /\ ts[j + 1].type_ = open_type
        /\ \A k \in (j + 2)..Len(ts) :
               ts[k].type_ \in {"empty-line", "comment-line", "comment-inline"}

\* the close token of a collection of the given kind appends the empty form
\* when the collection has no element, and nothing when it has one
ClosesAsClaimed(tagname, open_type, empty_form) ==
    /\ EmptySince(toks, tagname, open_type) => formatted' = formatted \o empty_form
    /\ LastNonComment(toks).type_ \in {"value", "seq-close", "map-close"}
           => formatted' = formatted

\* C8: the close token of an empty seq appends " []" and that of an empty map
\* appends " {}"; the close token of a collection with an element appends
\* nothing; no empty collection is rendered as nothing.
C8_EmptyCollections ==
    [][/\ StepOf("seq-close") => ClosesAsClaimed(s_seq, "seq-open", <<SP, "[", "]">>)
       /\ StepOf("map-close") => ClosesAsClaimed(s_map, "map-open", <<SP, "{", "}">>)]_vars

\* s has two blank lines in a row
TwoBlankLines(s) ==
    \E i \in 1..(Len(s) - 2) : s[i] = NL /\ s[i + 1] = NL /\ s[i + 2] = NL

BlanksText ==
    <<"-", SP, SQ, "a", SQ, NL, NL, "-", SP, SQ, "b", SQ, NL>>

\* C9: an empty-line token appends a newline only if output has started and
\* the previous printable token is no empty-line; three blank lines in a row
\* give one blank output line; no returned text has two blank lines in a row.
C9_BlankLinesCollapsed ==
    /\ [][StepOf("empty-line") =>
            formatted' = IF formatted # <<>> /\ LastPrintable(toks).type_ # "empty-line"
                         THEN formatted \o <<NL>> ELSE formatted]_vars
    /\ [](toks = ScenarioBlanks /\ result = "returned" => returned = BlanksText)
    /\ [](result = "returned" => ~TwoBlankLines(returned))

\* a str scalar with a single quote and no backslash is rendered, as a value
\* or as a mapping key
QuotedStrStep(s) ==
    /\ toks' = Append(toks, T_val(s))
    /\ LastNonComment(toks) = T_tag(s_str)
    /\ Contains(s, SQ) /\ ~Contains(s, BS)

\* the colon that follows a rendered mapping key
KeyColon == IF next_value_is_map_key THEN <<":">> ELSE <<>>

\* C10 as stated: a str scalar with a single quote and no backslash renders
\* single-quoted with every single quote doubled (it's gives 'it''s').
C10_SingleQuotedDoubled ==
    [][\A s \in ValueTexts : QuotedStrStep(s) =>
          formatted' = formatted \o <<SQ>> \o Replace(s, SQ, <<SQ, SQ>>) \o <<SQ>>
                           \o KeyColon]_vars

\* C10 amended: a str scalar with a single quote and no backslash renders
\* double-quoted with its text unchanged (it's gives "it's").
C10_DoubleQuotedUnchanged ==
    [][\A s \in ValueTexts : QuotedStrStep(s) =>
          formatted' = formatted \o <<DQ>> \o s \o <<DQ>> \o KeyColon]_vars

\* C10 witness: the str scalar it's was rendered.
C10_ItsRendered ==
    /\ toks = <<T_doc, T_tag(s_str), T_val(s_its)>>
    /\ result = "running"
    /\ formatted = <<DQ, "i", "t", SQ, "s", DQ>>

AllTexts == ValueTexts \cup ScenarioTexts

\* a non-empty run of letters, digits and underscores
BareRun(s) ==
    Len(s) > 0 /\ \A i \in 1..Len(s) : s[i] \in Letters \cup Digits \cup {"_"}

\* the string-quoting rule: double quotes around a text with a backslash or a
\* single quote, single quotes around any other
QuotedText(s) ==
    IF Contains(s, BS) \/ Contains(s, SQ) THEN <<DQ>> \o s \o <<DQ>>
    ELSE <<SQ>> \o s \o <<SQ>>

\* the value s is rendered as a str mapping key
KeyStep(s) ==
    /\ toks' = Append(toks, T_val(s))
    /\ next_value_is_map_key
    /\ LastNonComment(toks) = T_tag(s_str)

\* C11: a str mapping key is rendered bare followed by ':' exactly when its
\* text is a non-empty run of letters, digits and underscores, and through the
\* string-quoting rule followed by ':' otherwise.
C11_KeyQuoting ==
    [][\A s \in AllTexts : KeyStep(s) =>
          /\ result' = "running"
          /\ formatted' = formatted \o (IF BareRun(s) THEN s ELSE QuotedText(s))
                                    \o <<":">>]_vars

\* C11 witness: the key text foo bar was rendered as 'foo bar':
C11_FooBarRendered ==
    /\ toks = SubSeq(ScenarioKey(s_foo_bar), 1, 6)
    /\ formatted = <<SQ>> \o s_foo_bar \o <<SQ, ":">>

Max(a, b) == IF a >= b THEN a ELSE b

\* the prefix C14 states for a tag v met at depth d
ClaimedTagPrefix(v, d) ==
    (IF next_value_is_map_val
     THEN (IF v \in scalars THEN <<SP>> ELSE <<>>)
     ELSE (IF formatted = <<>> THEN <<>> ELSE <<NL>>) \o Spaces(2 * Max(0, d - 1)))
    \o (IF d > 0 /\ stack[d] = s_seq THEN <<"-", SP>> ELSE <<>>)

\* C14: at a tag met at depth d, a pending mapping value gets one space
\* (scalar) or nothing (collection) and no newline; any other tag gets a
\* newline (none before the first output) and 2*max(0, d-1) spaces; then "- "
\* is appended exactly when the enclosing collection is a seq.
C14_TagPrefix ==
    [][\A v \in scalars \cup collections :
          toks' = Append(toks, T_tag(v)) =>
              formatted' = formatted \o ClaimedTagPrefix(v, Len(stack))]_vars

\* C14 witness: a tag at depth 2 inside a seq started an indented bullet line.
C14_IndentedBullet ==
    /\ Len(toks) >= 1
    /\ toks[Len(toks)].type_ = "tag"
    /\ EndsWith(formatted, <<NL, SP, SP, "-", SP>>)

\* C15: the nesting stack grows only at a tag naming a collection type; a
\* seq-close pops only a seq entry and a map-close only a map entry.
C15_MatchingClose ==
    [][/\ Len(stack') > Len(stack) =>
              StepOf("tag") /\ toks'[Len(toks')].value \in collections
       /\ Len(stack') < Len(stack) => StepOf("seq-close") \/ StepOf("map-close")
       /\ StepOf("seq-close") /\ stack' # stack => Top(stack) = s_seq
       /\ StepOf("map-close") /\ stack' # stack => Top(stack) = s_map]_vars

\* this step is the loop body for a comment token
CommentStep == StepOf("comment-line") \/ StepOf("comment-inline")

\* C16: a comment token leaves the nesting stack, both pending flags, one_doc
\* and prev unchanged; it appends to the output and becomes prev_printable.
C16_CommentFrame ==
    [][CommentStep =>
          /\ UNCHANGED <<stack, next_value_is_map_key, next_value_is_map_val,
                         one_doc, prev, result, returned>>
          /\ IsPrefix(formatted, formatted') /\ formatted' # formatted
          /\ prev_printable' = toks'[Len(toks')]]_vars

\* C16 witness: a comment came between a tag and its value while a mapping
\* key was pending.
C16_CommentAfterKeyTag ==
    /\ Len(toks) >= 2
    /\ toks[Len(toks)].type_ = "comment-inline"
    /\ toks[Len(toks) - 1].type_ = "tag"
    /\ prev.type_ = "tag"
    /\ next_value_is_map_key

\* the last line of the text f holds a comment
LastLineHasComment(f) ==
    \E i \in 1..Len(f) : f[i] = "#" /\ \A j \in (i + 1)..Len(f) : f[j] # NL

\* C20: after a comment on an output line, whatever a token other than a
\* comment appends next begins with a newline.
C20_NothingBehindComment ==
    [][(/\ toks' # toks
        /\ ~CommentStep
        /\ formatted' # formatted
        /\ LastLineHasComment(formatted))
          => formatted'[Len(formatted) + 1] = NL]_vars

----------------------------------------------------------------------------
(* Lexical Scanner: tokenize(), one action per rule of its scan loop *)

\* pieces of text a scanned input is put together from
MaxPieces == 3

Pieces ==
    { <<NL>>, <<SP>>, <<",">>, <<"-", "-", "-">>,
      <<"{">>, <<"}">>, <<"?">>, <<":">>, <<"[">>, <<"]">>,
      <<"!", "!", "s", "t", "r">>, <<"!">>,
      <<DQ, "a", DQ>>, <<DQ, "a", NL, "b", DQ>>, <<DQ, "a", BS, NL, BS, "b", DQ>>,
      <<DQ>>, <<"#", "c">>, <<"x">> }

RECURSIVE Concat(_, _)
\* the pieces f[1], ..., f[n] joined
Concat(f, n) == IF n = 0 THEN <<>> ELSE Concat(f, n - 1) \o f[n]

Texts == UNION {{Concat(f, n) : f \in [1..n -> Pieces]} : n \in 0..MaxPieces}

\* y[n:]
Drop(y, n) == SubSeq(y, n + 1, Len(y))

\* the index in input of the first character of yaml
At == Len(input) - Len(yaml) + 1

\* Token(type, line=line, column=col, value=value), built before any counter moves
ScanToken(type, value) ==
    [type_ |-> type, value |-> value, line |-> line, column |-> col, at |-> At]

\* \s
Whitespace == {SP, NL, "\t", "\r", "\f"}

RECURSIVE RunLength(_, _)
\* the length of the longest prefix of y with no character of stop
RunLength(y, stop) ==
    IF y = <<>> \/ y[1] \in stop THEN 0 ELSE 1 + RunLength(Tail(y), stop)

\* _tag_re: !!(\S*) matches
TagMatches(y) == StartsWith(y, <<"!", "!">>)

\* the length of the tag name in place of the end of the match
TagEnd_NameOnly(y) == RunLength(Drop(y, 2), Whitespace)

\* _tag.end() of a match
TagEnd(y) == 2 + RunLength(Drop(y, 2), Whitespace)

\* _value_re: "(.*?)(?<!\\)" with DOTALL; the end of the match, 0 when none
ValueEnd(y) ==
    LET closing == {j \in 2..Len(y) : y[j] = DQ /\ y[j - 1] # BS}
    IN  IF y # <<>> /\ y[1] = DQ /\ closing # {}
        THEN CHOOSE j \in closing : \A k \in closing : j <= k
        ELSE 0

\* _comment_re:  ?#(.*); where the group starts, 0 when there is no match
CommentBody(y) ==
    IF StartsWith(y, <<"#">>) THEN 2
    ELSE IF StartsWith(y, <<SP, "#">>) THEN 3
    ELSE 0

CommentEnd(y) ==
    IF CommentBody(y) = 0 THEN 0
    ELSE CommentBody(y) - 1 + RunLength(Drop(y, CommentBody(y) - 1), {NL})

RECURSIVE RemoveContinuations(_)
\* s.replace("\\\n\\", "")
RemoveContinuations(s) ==
    IF s = <<>> THEN <<>>
    ELSE IF StartsWith(s, <<BS, NL, BS>>) THEN RemoveContinuations(Drop(s, 3))
    ELSE <<s[1]>> \o RemoveContinuations(Tail(s))

\* tokenize(input) is called
TokStart ==
    /\ input \in Texts
    /\ yaml = input
    /\ line = 1
    /\ col = 1
    /\ ws = 1
    /\ out = <<>>
    /\ tstatus = "scanning"

\* the scan loop is entered with text left
Scanning == tstatus = "scanning" /\ yaml # <<>>

TokFrame == UNCHANGED <<input, normVars, cliVars>>

\* whether a newline yields an empty-line token
YieldsEmptyLine(w, c) == w = c

TokNewline ==
    /\ Scanning
    /\ yaml[1] = NL
    /\ out' = IF YieldsEmptyLine(ws, col)
              THEN Append(out, ScanToken("empty-line", <<>>)) ELSE out
    /\ line' = line + 1
    /\ col' = 1
    /\ ws' = 1
    /\ yaml' = Drop(yaml, 1)
    /\ UNCHANGED tstatus
    /\ TokFrame

TokSpace ==
    /\ Scanning
    /\ yaml[1] = SP
    /\ col' = col + 1
    /\ ws' = ws + 1
    /\ yaml' = Drop(yaml, 1)
    /\ UNCHANGED <<line, out, tstatus>>
    /\ TokFrame

TokComma ==
    /\ Scanning
    /\ yaml[1] = ","
    /\ col' = col + 1
    /\ yaml' = Drop(yaml, 1)
    /\ UNCHANGED <<line, ws, out, tstatus>>
    /\ TokFrame

Insignificant(y) == y[1] \in {NL, SP, ","}

TokDocument ==
    /\ Scanning
    /\ ~Insignificant(yaml)
    /\ StartsWith(yaml, <<"-", "-", "-">>)
    /\ out' = Append(out, ScanToken("document", <<>>))
    /\ yaml' = Drop(yaml, 3)
    /\ col' = col + 3
    /\ UNCHANGED <<line, ws, tstatus>>
    /\ TokFrame

\* the six markers that are one character wide
Markers ==
    [c \in {"{", "}", "?", ":", "[", "]"} |->
        CASE c = "{" -> "map-open"
          [] c = "}" -> "map-close"
          [] c = "?" -> "map-key"
          [] c = ":" -> "map-val"
          [] c = "[" -> "seq-open"
          [] c = "]" -> "seq-close"]

TokMarker ==
    /\ Scanning
    /\ yaml[1] \in DOMAIN Markers
    /\ out' = Append(out, ScanToken(Markers[yaml[1]], <<>>))
    /\ yaml' = Drop(yaml, 1)
    /\ col' = col + 1
    /\ UNCHANGED <<line, ws, tstatus>>
    /\ TokFrame

\* no rule before the tag rule applies
BeforeTag(y) ==
    /\ ~Insignificant(y)
    /\ ~StartsWith(y, <<"-", "-", "-">>)
    /\ y[1] \notin DOMAIN Markers

TokTag ==
    /\ Scanning
    /\ BeforeTag(yaml)
    /\ TagMatches(yaml)
    /\ out' = Append(out, ScanToken("tag", SubSeq(yaml, 3, TagEnd(yaml))))
    /\ yaml' = Drop(yaml, TagEnd(yaml))
    /\ col' = col + TagEnd(yaml)
    /\ ws' = ws + TagEnd(yaml)
    /\ UNCHANGED <<line, tstatus>>
    /\ TokFrame

TokValue ==
    /\ Scanning
    /\ BeforeTag(yaml)
    /\ ~TagMatches(yaml)
    /\ ValueEnd(yaml) > 0
    /\ out' = Append(out, ScanToken("value",
                  RemoveContinuations(SubSeq(yaml, 2, ValueEnd(yaml) - 1))))
    /\ yaml' = Drop(yaml, ValueEnd(yaml))
    /\ col' = col + ValueEnd(yaml)
    /\ UNCHANGED <<line, ws, tstatus>>
    /\ TokFrame

TokComment ==
    /\ Scanning
    /\ BeforeTag(yaml)
    /\ ~TagMatches(yaml)
    /\ ValueEnd(yaml) = 0
    /\ CommentEnd(yaml) > 0
    /\ out' = Append(out, ScanToken(IF ws = col THEN "comment-line" ELSE "comment-inline",
                                    SubSeq(yaml, CommentBody(yaml), CommentEnd(yaml))))
    /\ yaml' = Drop(yaml, CommentEnd(yaml))
    /\ col' = col + CommentEnd(yaml)
    /\ UNCHANGED <<line, ws, tstatus>>
    /\ TokFrame

\* raise TokenError("Found garbage: ...")
TokGarbage ==
    /\ Scanning
    /\ BeforeTag(yaml)
    /\ ~TagMatches(yaml)
    /\ ValueEnd(yaml) = 0
    /\ CommentEnd(yaml) = 0
    /\ tstatus' = "TokenError"
    /\ UNCHANGED <<yaml, line, col, ws, out>>
    /\ TokFrame

\* "while yaml" ends the loop
TokEnd ==
    /\ tstatus = "scanning"
    /\ yaml = <<>>
    /\ tstatus' = "done"
    /\ UNCHANGED <<yaml, line, col, ws, out>>
    /\ TokFrame

InitTok ==
    /\ TokStart
    /\ CliIdle
    /\ toks = <<>>
    /\ formatted = <<>>
    /\ one_doc = FALSE
    /\ next_value_is_map_key = FALSE
    /\ next_value_is_map_val = FALSE
    /\ prev = NoToken
    /\ prev_printable = NoToken
    /\ stack = <<>>
    /\ result = "running"
    /\ returned = <<>>

NextTok ==
    \/ TokNewline
    \/ TokSpace
    \/ TokComma
    \/ TokDocument
    \/ TokMarker
    \/ TokTag
    \/ TokValue
    \/ TokComment
    \/ TokGarbage
    \/ TokEnd

SpecTok == InitTok /\ [][NextTok]_vars

----------------------------------------------------------------------------
(* Properties of the scanner *)

\* the index of the last newline of input before index p, 0 when there is none
LastNewlineBefore(p) ==
    LET nls == {i \in 1..(p - 1) : input[i] = NL}
    IN  IF nls = {} THEN 0 ELSE CHOOSE i \in nls : \A k \in nls : k <= i

\* the 1-based line and column of index p of input
LineOf(p) == 1 + Cardinality({i \in 1..(p - 1) : input[i] = NL})
ColumnOf(p) == p - LastNewlineBefore(p)

\* C17: every step of the scan loop consumes at least one character or raises
\* TokenError; the scan is never stuck and ends with the input exhausted or
\* with TokenError; the tokens yielded are in strict left-to-right order.
C17_ScanTerminates ==
    /\ [][Scanning => (Len(yaml') < Len(yaml) \/ tstatus' = "TokenError")]_vars
    /\ [](tstatus = "scanning" => ENABLED NextTok)
    /\ [](tstatus = "done" => yaml = <<>>)
    /\ [](yaml = SubSeq(input, At, Len(input)))
    /\ [](\A i \in 1..Len(out) :
             /\ out[i].at < At
             /\ \A j \in 1..Len(out) : i < j => out[i].at < out[j].at)

\* C17 witness: a scan of three tokens ended with the input exhausted.
C17_ScanDone == tstatus = "done" /\ Len(out) = 3

\* C18: every token carries the 1-based line and column of its first
\* character in the input.
C18_TokenPositions ==
    \A i \in 1..Len(out) :
        out[i].line = LineOf(out[i].at) /\ out[i].column = ColumnOf(out[i].at)

\* the line that ends at index p of input holds nothing but spaces
BlankLineBefore(p) == \A i \in (LastNewlineBefore(p) + 1)..(p - 1) : input[i] = SP

\* C19: a newline yields an empty-line token exactly when the line it ends
\* holds nothing but spaces, and no other step yields one.
C19_EmptyLineOnlyForBlank ==
    [][/\ (Scanning /\ yaml[1] = NL) =>
              (Len(out') > Len(out) <=> BlankLineBefore(At))
       /\ (Len(out') > Len(out) /\ out'[Len(out')].type_ = "empty-line") =>
              yaml[1] = NL]_vars

----------------------------------------------------------------------------
(* Command line: cli(args), called any number of times in one process.
   config is the module-level dictionary, disk maps each path to the text of
   its file, call is the frame of the current (or last) call: its arguments,
   the loop position i, the three counters and the return value.  refused
   counts the files whose double check failed in this call; n counts the
   calls begun.  The YAML libraries behind normalized() and redump() are
   outside the repository; their results on the file texts are tabulated. *)

MaxCalls == 2
MaxPaths == 2

Files == {"a.yml", "b.yml"}

\* File texts: t_ok is reformatted to n_ok and both load to the same data;
\* t_bad is reformatted to n_bad, which loads to other data; n_ok and n_bad
\* are already in normal form; normalized() raises on t_err.
Contents == {"t_ok", "n_ok", "t_bad", "n_bad", "t_err"}

NormalizedRaises(current) == current = "t_err"

normalized(current) ==
    CASE current = "t_ok" -> "n_ok"
      [] current = "t_bad" -> "n_bad"
      [] OTHER -> current

\* pyyaml.safe_load of a text
safe_load(t) ==
    CASE t \in {"t_ok", "n_ok"} -> "data_ok"
      [] t = "t_bad" -> "data_bad"
      [] OTHER -> "data_other"

\* pyyaml.safe_dump of loaded data
safe_dump(data) == <<"dump", data>>

redump(t) == safe_dump(safe_load(t))

Flags == {"--help", "--debug", "--unsafe", "--fix"}
PathLists == UNION {[1..n -> Files] : n \in 0..MaxPaths}
Args == [flags : SUBSET Flags, paths : PathLists]

\* not args or "--help" in args
ShowsUsage(args) == (args.flags = {} /\ args.paths = <<>>) \/ "--help" \in args.flags

CliFrame == UNCHANGED <<normVars, tokVars>>

\* cli() can be called: no call is running
CliReady == call.phase \in {"idle", "returned", "raised"} /\ call.n < MaxCalls

CliUsage ==
    \E args \in Args :
        /\ CliReady
        /\ ShowsUsage(args)
        /\ call' = [NoCall EXCEPT !.phase = "returned", !.n = call.n + 1, !.args = args,
                                  !.ret = IF args.flags = {} /\ args.paths = <<>> THEN 1 ELSE 0]
        /\ UNCHANGED <<config, disk>>
        /\ CliFrame

CliStart ==
    \E args \in Args :
        /\ CliReady
        /\ ~ShowsUsage(args)
        /\ config' = [double_check |-> IF "--unsafe" \in args.flags THEN FALSE
                                       ELSE config.double_check,
                      fix_in_place |-> IF "--fix" \in args.flags THEN TRUE
                                       ELSE config.fix_in_place]
        /\ call' = [NoCall EXCEPT !.phase = "loop", !.n = call.n + 1, !.args = args, !.i = 1]
        /\ UNCHANGED disk
        /\ CliFrame

\* the loop has a path left
InLoop == call.phase = "loop" /\ call.i <= Len(call.args.paths)

Path == call.args.paths[call.i]
Current == disk[Path]
Fixed == normalized(Current)

\* a double check that never refuses
DoubleCheckFails_Never(current, fixed) == FALSE

\* config["double_check"] and redump(current) != redump(fixed)
DoubleCheckFails(current, fixed) == config.double_check /\ redump(current) # redump(fixed)

\* normalized(path) raises and the exception leaves cli
CliRaises ==
    /\ InLoop
    /\ NormalizedRaises(Current)
    /\ call' = [call EXCEPT !.phase = "raised"]
    /\ UNCHANGED <<config, disk>>
    /\ CliFrame

CliUnchanged ==
    /\ InLoop
    /\ ~NormalizedRaises(Current)
    /\ Current = Fixed
    /\ call' = [call EXCEPT !.i = @ + 1, !.checked = @ + 1]
    /\ UNCHANGED <<config, disk>>
    /\ CliFrame

CliWouldReformat ==
    /\ InLoop
    /\ ~NormalizedRaises(Current)
    /\ Current # Fixed
    /\ ~config.fix_in_place
    /\ call' = [call EXCEPT !.i = @ + 1, !.checked = @ + 1, !.needs_change = @ + 1]
    /\ UNCHANGED <<config, disk>>
    /\ CliFrame

CliRefused ==
    /\ InLoop
    /\ ~NormalizedRaises(Current)
    /\ Current # Fixed
    /\ config.fix_in_place
    /\ DoubleCheckFails(Current, Fixed)
    /\ call' = [call EXCEPT !.i = @ + 1, !.checked = @ + 1, !.needs_change = @ + 1,
                            !.refused = @ + 1]
    /\ UNCHANGED <<config, disk>>
    /\ CliFrame

CliReformat ==
    /\ InLoop
    /\ ~NormalizedRaises(Current)
    /\ Current # Fixed
    /\ config.fix_in_place
    /\ ~DoubleCheckFails(Current, Fixed)
    /\ disk' = [disk EXCEPT ![Path] = Fixed]
    /\ call' = [call EXCEPT !.i = @ + 1, !.checked = @ + 1, !.needs_change = @ + 1,
                            !.changed = @ + 1]
    /\ UNCHANGED config
    /\ CliFrame

CliFinish ==
    /\ call.phase = "loop"
    /\ call.i > Len(call.args.paths)
    /\ call' = [call EXCEPT !.phase = "returned",
                            !.ret = IF call.needs_change # call.changed THEN 1 ELSE 0]
    /\ UNCHANGED <<config, disk>>
    /\ CliFrame

InitCli ==
    /\ TokIdle
    /\ config = DefaultConfig
    /\ disk \in [Files -> Contents]
    /\ call = NoCall
    /\ toks = <<>>
    /\ formatted = <<>>
    /\ one_doc = FALSE
    /\ next_value_is_map_key = FALSE
    /\ next_value_is_map_val = FALSE
    /\ prev = NoToken
    /\ prev_printable = NoToken
    /\ stack = <<>>
    /\ result = "running"
    /\ returned = <<>>

NextCli ==
    \/ CliUsage
    \/ CliStart
    \/ CliRaises
    \/ CliUnchanged
    \/ CliWouldReformat
    \/ CliRefused
    \/ CliReformat
    \/ CliFinish

SpecCli == InitCli /\ [][NextCli]_vars

----------------------------------------------------------------------------
(* Properties of the command line *)

C13_CallsSelfContained ==
    [][disk' # disk =>
           /\ "--fix" \in call.args.flags
           /\ "--unsafe" \in call.args.flags \/ redump(Current) = redump(Fixed)]_vars

====
